---- MODULE Spec2Model ----
(***************************************************************************)
(* Mission lifecycle of server.js: the start / cancel / complete handlers, *)
(* the Firestore documents they read and write (users/{uid},               *)
(* users/{uid}/journeyEvents, missions/{id}) and the transaction each      *)
(* handler runs.  A handler is a sequence of steps separated by its        *)
(* awaits: the body of one transaction attempt (reads, checks, buffered    *)
(* writes), the commit of that attempt (applied atomically, or aborted     *)
(* when the user document changed since the attempt read it, and then      *)
(* re-run), and for start the read of the user document after the          *)
(* transaction.                                                            *)
(***************************************************************************)
EXTENDS Integers, Sequences, FiniteSets, TLC

VARIABLES users, missions, journeyEvents, now, req

vars == <<users, missions, journeyEvents, now, req>>

-----------------------------------------------------------------------------
(* Bounds of the model *)

\* start requests racing for one user
NStarts == 2
\* a user's journey log length from which no further request is accepted
MaxLog == 3
\* ticks of the store's clock
MaxTime == 1
\* attempts of one transaction before runTransaction gives up
MaxAttempts == 2
\* largest crew count and crew requirement
MaxCrew == 2
\* cancel and complete requests racing for one Active user
NEnds == 2

-----------------------------------------------------------------------------
(* Values *)

\* JavaScript's undefined: an absent field, an unset variable
Undefined == [type |-> "undefined"]

Num(n) == [type |-> "number", v |-> n]

\* a Firestore Timestamp, and the string toDate().toISOString() makes of it
Timestamp(t) == [type |-> "timestamp", t |-> t]

toISOString(ts) == [type |-> "isostring", t |-> ts.t]

\* a document that does not exist (snapshot.exists is false)
NoDoc == [exists |-> FALSE]

UserIds == {"u1", "u2"}

\* uids a verified token can carry: the users with a profile, and one without
ReqUserIds == UserIds \cup {"ghost"}

\* the missions collection
Catalog ==
    [m1 |-> [exists |-> TRUE, name |-> "Alpha", crew |-> Num(1), durationSeconds |-> 10],
     m2 |-> [exists |-> TRUE, name |-> "Beta", crew |-> Num(2), durationSeconds |-> 20],
     m3 |-> [exists |-> TRUE, name |-> "Gamma", crew |-> Num(3), durationSeconds |-> 30],
     m4 |-> [exists |-> TRUE, name |-> "Delta", crew |-> Undefined, durationSeconds |-> 40]]

\* missionId values of a request body: catalog ids, an unknown id, and none ("")
ReqMissionIds == DOMAIN Catalog \cup {"mx", ""}

\* missionName values of a complete request body
ReqMissionNames == {"Alpha", "Beta", ""}

\* two handlers in flight at once
RaceSlots == {1, 2}

Slots == DOMAIN req

\* a slot with no handler running and no response kept
IdleReq ==
    [op |-> "none", userId |-> "", missionId |-> "", missionName |-> "",
     pc |-> "idle", attempts |-> 0, readTime |-> 0,
     writes |-> Undefined,
     CanceledMissionName |-> "Unknown Mission", CanceledMissionId |-> "",
     response |-> Undefined]

NewReq(op, u, m, n) ==
    [IdleReq EXCEPT !.op = op, !.userId = u, !.missionId = m, !.missionName = n]

-----------------------------------------------------------------------------
(* Error messages and their classification *)

\* the message of an error the store raises: a transaction that lost every
\* attempt to contention, and a store that cannot be reached
StorageMessage(kind) ==
    IF kind = "Aborted"
    THEN <<"10", "ABORTED:", "Too", "much", "contention", "on", "these",
           "documents", ".">>
    ELSE <<"14", "UNAVAILABLE:", "No", "connection", "established">>

\* the message of each error a handler throws or returns, as its words
Message(op, kind) ==
    CASE op = "start" /\ kind = "MissingParameters" ->
            <<"Mission", "ID", "is", "required", ".">>
      [] op = "start" /\ kind = "UserNotFound" ->
            <<"User", "profile", "not", "found", "in", "Firestore", ".">>
      [] op = "start" /\ kind = "MissionNotFound" ->
            <<"Mission", "details", "not", "found", "in", "Firestore", ".">>
      [] op = "start" /\ kind = "AlreadyActive" ->
            <<"User", "already", "has", "an", "active", "mission", ".">>
      [] op = "start" /\ kind = "IncompleteShipData" ->
            <<"Ship", "status", "data", "is", "incomplete", "for", "user", ".">>
      [] op = "start" /\ kind = "IncompleteMissionData" ->
            <<"Mission", "data", "is", "incomplete", "(", "missing", "crew",
              "requirement", ")", ".">>
      [] op = "start" /\ kind = "InsufficientCrew" ->
            <<"Insufficient", "crew", ".", "Required:", "n", ",", "Available:", "n">>
      [] op = "cancel" /\ kind = "UserNotFound" ->
            <<"User", "profile", "not", "found", ".">>
      [] op = "cancel" /\ kind = "NoActiveMission" ->
            <<"No", "active", "mission", "to", "cancel", ".">>
      [] op = "complete" /\ kind = "MissingParameters" ->
            <<"Mission", "ID", "and", "Mission", "Name", "are", "required", ".">>
      [] op = "complete" /\ kind = "UserNotFound" ->
            <<"User", "profile", "not", "found", ".">>
      [] op = "complete" /\ kind = "NoActiveMission" ->
            <<"No", "active", "mission", "found", "to", "complete", ".", "It",
              "might", "have", "been", "canceled", "or", "already", "completed", ".">>
      [] op = "complete" /\ kind = "MissionMismatch" ->
            <<"The", "mission", "to", "complete", "does", "not", "match", "the",
              "currently", "active", "mission", "in", "the", "database", ".">>
      [] OTHER -> StorageMessage(kind)

\* String.prototype.includes, on words
includes(msg, pat) ==
    \E i \in 0..(Len(msg) - Len(pat)) :
        \A j \in 1..Len(pat) : msg[i + j] = pat[j]

isClientErrorStart(msg) ==
    \/ includes(msg, <<"User", "already">>)
    \/ includes(msg, <<"Insufficient", "crew">>)
    \/ includes(msg, <<"not", "found">>)
    \/ includes(msg, <<"required">>)
    \/ includes(msg, <<"incomplete">>)

isClientErrorCancelNotFoundOnly(msg) == includes(msg, <<"not", "found">>)

isClientErrorCancel(msg) ==
    \/ includes(msg, <<"No", "active", "mission">>)
    \/ includes(msg, <<"not", "found">>)

isClientErrorComplete(msg) ==
    \/ includes(msg, <<"required">>)
    \/ includes(msg, <<"not", "found">>)
    \/ includes(msg, <<"does", "not", "match">>)
    \/ includes(msg, <<"No", "active", "mission", "found", "to", "complete">>)

isClientError(op, msg) ==
    CASE op = "start" -> isClientErrorStart(msg)
      [] op = "cancel" -> isClientErrorCancel(msg)
      [] OTHER -> isClientErrorComplete(msg)

\* the response the catch block of a handler sends for a thrown error
CatchResponse(op, kind) ==
    [status |-> IF isClientError(op, Message(op, kind)) THEN 400 ELSE 500,
     error |-> kind, activeMission |-> Undefined, missionName |-> ""]

\* the response of an early return on a missing parameter
BadRequest(kind) ==
    [status |-> 400, error |-> kind, activeMission |-> Undefined, missionName |-> ""]

Ok(activeMission, missionName) ==
    [status |-> 200, error |-> "", activeMission |-> activeMission,
     missionName |-> missionName]

-----------------------------------------------------------------------------
(* Documents *)

MissionDoc(id) == IF id \in DOMAIN missions THEN missions[id] ELSE NoDoc

UserDoc(uid) == IF uid \in DOMAIN users THEN users[uid] ELSE NoDoc

Profile(crew) ==
    [exists |-> TRUE, activeMission |-> Undefined,
     shipStatus |-> [crewCurrent |-> crew], updateTime |-> 0]

Init ==
    /\ users = [u1 |-> Profile(Num(2)), u2 |-> Profile(Num(3))]
    /\ missions = Catalog
    /\ journeyEvents = [u \in UserIds |-> <<>>]
    /\ now = 0
    /\ req = [r \in RaceSlots |-> IdleReq]

-----------------------------------------------------------------------------
(* The transaction *)

\* what a commit makes of a buffered activeMission: serverTimestamp() resolved,
\* FieldValue.delete() (Undefined here) removing the field
Resolve(am, t) ==
    IF am = Undefined THEN Undefined
    ELSE [missionId |-> am.missionId, missionName |-> am.missionName,
          startDate |-> Timestamp(t), durationSeconds |-> am.durationSeconds]

\* the journey event a commit creates from a buffered one
ResolveEvent(ev, t) ==
    [missionId |-> ev.missionId, missionName |-> ev.missionName,
     status |-> ev.status, eventDate |-> Timestamp(t)]

CanCommitUnchecked(r) == TRUE

\* an attempt commits when the user document is as the attempt read it
CanCommit(r) == users[req[r].userId].updateTime = req[r].readTime

\* the user document after the buffered update of an attempt
UpdatedUser(doc, w, t) ==
    [doc EXCEPT !.activeMission = Resolve(w.activeMission, t),
                !.updateTime = @ + 1]

ApplyWritesReplaceLast(r) ==
    LET uid == req[r].userId
        w == req[r].writes
        ev == ResolveEvent(w.event, now)
    IN /\ users' = [users EXCEPT ![uid] = UpdatedUser(@, w, now)]
       /\ journeyEvents' =
            [journeyEvents EXCEPT ![uid] =
                IF ev.status = "started" THEN Append(@, ev)
                ELSE [@ EXCEPT ![Len(@)] = ev]]

ApplyWritesAllLogs(r) ==
    LET uid == req[r].userId
        w == req[r].writes
    IN /\ users' = [users EXCEPT ![uid] = UpdatedUser(@, w, now)]
       /\ journeyEvents' =
            [u \in DOMAIN journeyEvents |->
                Append(journeyEvents[u], ResolveEvent(w.event, now))]

ApplyWritesNoEvent(r) ==
    /\ users' = [users EXCEPT ![req[r].userId] = UpdatedUser(@, req[r].writes, now)]
    /\ UNCHANGED journeyEvents

\* the commit of slot r's attempt: the update and the new journey event together
ApplyWrites(r) ==
    LET uid == req[r].userId
        w == req[r].writes
    IN /\ users' = [users EXCEPT ![uid] = UpdatedUser(@, w, now)]
       /\ journeyEvents' =
            [journeyEvents EXCEPT ![uid] = Append(@, ResolveEvent(w.event, now))]

\* the handler of slot r has returned: its response, its locals dropped
Done(q, response) ==
    [q EXCEPT !.pc = "done", !.response = response, !.readTime = 0,
              !.writes = Undefined, !.CanceledMissionName = "Unknown Mission",
              !.CanceledMissionId = ""]

\* slot r can take a request for uid
Free(r, uid) ==
    /\ req[r].pc \in {"idle", "done"}
    /\ uid \in DOMAIN journeyEvents => Len(journeyEvents[uid]) < MaxLog

RetryNoLimit(r) ==
    req' = [req EXCEPT ![r].pc = "txn", ![r].attempts = @ + 1,
                       ![r].writes = Undefined]

\* an aborted attempt: run the body again, or give up with the storage error
Retry(r) ==
    IF req[r].attempts + 1 < MaxAttempts
    THEN req' = [req EXCEPT ![r].pc = "txn", ![r].attempts = @ + 1,
                            ![r].writes = Undefined]
    ELSE req' = [req EXCEPT ![r] =
            Done([@ EXCEPT !.attempts = @ + 1], CatchResponse(req[r].op, "Aborted"))]

-----------------------------------------------------------------------------
(* POST /api/missions/start *)

StartCheckNoActiveGuard(userDoc, missionDoc) ==
    IF ~userDoc.exists THEN "UserNotFound"
    ELSE IF ~missionDoc.exists THEN "MissionNotFound"
    ELSE IF \/ userDoc.shipStatus = Undefined
            \/ userDoc.shipStatus.crewCurrent = Undefined
         THEN "IncompleteShipData"
    ELSE IF missionDoc.crew = Undefined THEN "IncompleteMissionData"
    ELSE IF userDoc.shipStatus.crewCurrent.v < missionDoc.crew.v
         THEN "InsufficientCrew"
    ELSE ""

StartCheckCrewFirst(userDoc, missionDoc) ==
    IF ~userDoc.exists THEN "UserNotFound"
    ELSE IF ~missionDoc.exists THEN "MissionNotFound"
    ELSE IF \/ userDoc.shipStatus = Undefined
            \/ userDoc.shipStatus.crewCurrent = Undefined
         THEN "IncompleteShipData"
    ELSE IF missionDoc.crew = Undefined THEN "IncompleteMissionData"
    ELSE IF userDoc.shipStatus.crewCurrent.v < missionDoc.crew.v
         THEN "InsufficientCrew"
    ELSE IF userDoc.activeMission # Undefined THEN "AlreadyActive"
    ELSE ""

StartCheckStrict(userDoc, missionDoc) ==
    IF ~userDoc.exists THEN "UserNotFound"
    ELSE IF ~missionDoc.exists THEN "MissionNotFound"
    ELSE IF userDoc.activeMission # Undefined THEN "AlreadyActive"
    ELSE IF \/ userDoc.shipStatus = Undefined
            \/ userDoc.shipStatus.crewCurrent = Undefined
         THEN "IncompleteShipData"
    ELSE IF missionDoc.crew = Undefined THEN "IncompleteMissionData"
    ELSE IF userDoc.shipStatus.crewCurrent.v <= missionDoc.crew.v
         THEN "InsufficientCrew"
    ELSE ""

StartCheckNoCrewCheck(userDoc, missionDoc) ==
    IF ~userDoc.exists THEN "UserNotFound"
    ELSE IF ~missionDoc.exists THEN "MissionNotFound"
    ELSE IF userDoc.activeMission # Undefined THEN "AlreadyActive"
    ELSE IF \/ userDoc.shipStatus = Undefined
            \/ userDoc.shipStatus.crewCurrent = Undefined
         THEN "IncompleteShipData"
    ELSE IF missionDoc.crew = Undefined THEN "IncompleteMissionData"
    ELSE ""

\* the checks of the transaction body: the error thrown, or "" for none
StartCheck(userDoc, missionDoc) ==
    IF ~userDoc.exists THEN "UserNotFound"
    ELSE IF ~missionDoc.exists THEN "MissionNotFound"
    ELSE IF userDoc.activeMission # Undefined THEN "AlreadyActive"
    ELSE IF \/ userDoc.shipStatus = Undefined
            \/ userDoc.shipStatus.crewCurrent = Undefined
         THEN "IncompleteShipData"
    ELSE IF missionDoc.crew = Undefined THEN "IncompleteMissionData"
    ELSE IF userDoc.shipStatus.crewCurrent.v < missionDoc.crew.v
         THEN "InsufficientCrew"
    ELSE ""

StartWritesIdAsName(missionId, missionData) ==
    [activeMission |-> [missionId |-> missionId, missionName |-> missionId,
                        durationSeconds |-> missionData.durationSeconds],
     event |-> [missionId |-> missionId, missionName |-> missionData.name,
                status |-> "started"]]

\* the writes the body buffers: newActiveMission and the started event
StartWrites(missionId, missionData) ==
    [activeMission |-> [missionId |-> missionId, missionName |-> missionData.name,
                        durationSeconds |-> missionData.durationSeconds],
     event |-> [missionId |-> missionId, missionName |-> missionData.name,
                status |-> "started"]]

\* !missionId
StartParamsMissing(m) == m = ""

StartBegin(r, u, m) ==
    /\ Free(r, u)
    /\ req' = [req EXCEPT ![r] =
            IF StartParamsMissing(m)
            THEN Done(NewReq("start", u, m, ""), BadRequest("MissingParameters"))
            ELSE [NewReq("start", u, m, "") EXCEPT !.pc = "txn"]]
    /\ UNCHANGED <<users, missions, journeyEvents, now>>

StartTxnBody(r) ==
    /\ req[r].op = "start"
    /\ req[r].pc = "txn"
    /\ LET userDoc == UserDoc(req[r].userId)
           missionDoc == MissionDoc(req[r].missionId)
           err == StartCheck(userDoc, missionDoc)
       IN req' = [req EXCEPT ![r] =
            IF err # ""
            THEN Done(@, CatchResponse("start", err))
            ELSE [@ EXCEPT !.pc = "commit", !.readTime = userDoc.updateTime,
                           !.writes = StartWrites(req[r].missionId, missionDoc)]]
    /\ UNCHANGED <<users, missions, journeyEvents, now>>

StartCommit(r) ==
    /\ req[r].op = "start"
    /\ req[r].pc = "commit"
    /\ IF CanCommit(r)
       THEN /\ ApplyWrites(r)
            /\ req' = [req EXCEPT ![r].pc = "reread", ![r].writes = Undefined]
       ELSE /\ Retry(r)
            /\ UNCHANGED <<users, journeyEvents>>
    /\ UNCHANGED <<missions, now>>

\* the activeMission the response carries: the field as read, startDate converted
FinalActiveMission(doc) ==
    IF doc.activeMission = Undefined THEN Undefined
    ELSE [doc.activeMission EXCEPT !.startDate = toISOString(@)]

\* the read of the user document after the transaction, and the response
StartReread(r) ==
    /\ req[r].op = "start"
    /\ req[r].pc = "reread"
    /\ req' = [req EXCEPT ![r] =
            Done(@, Ok(FinalActiveMission(users[req[r].userId]), ""))]
    /\ UNCHANGED <<users, missions, journeyEvents, now>>

-----------------------------------------------------------------------------
(* POST /api/missions/cancel *)

\* the checks of the transaction body: the error thrown, or "" for none
CancelCheck(userDoc) ==
    IF ~userDoc.exists THEN "UserNotFound"
    ELSE IF userDoc.activeMission = Undefined THEN "NoActiveMission"
    ELSE ""

\* the writes the body buffers: the delete and the canceled event
CancelWrites(CanceledMissionId, CanceledMissionName) ==
    [activeMission |-> Undefined,
     event |-> [missionId |-> CanceledMissionId, missionName |-> CanceledMissionName,
                status |-> "canceled"]]

CancelBegin(r, u) ==
    /\ Free(r, u)
    /\ req' = [req EXCEPT ![r] = [NewReq("cancel", u, "", "") EXCEPT !.pc = "txn"]]
    /\ UNCHANGED <<users, missions, journeyEvents, now>>

CanceledNamesFirstAttempt(r, userDoc) ==
    IF req[r].attempts = 0
    THEN [name |-> userDoc.activeMission.missionName,
          id |-> userDoc.activeMission.missionId]
    ELSE [name |-> req[r].CanceledMissionName, id |-> req[r].CanceledMissionId]

\* the names the body assigns from the document it read
CanceledNames(r, userDoc) ==
    [name |-> userDoc.activeMission.missionName,
     id |-> userDoc.activeMission.missionId]

CancelTxnBody(r) ==
    /\ req[r].op = "cancel"
    /\ req[r].pc = "txn"
    /\ LET userDoc == UserDoc(req[r].userId)
           err == CancelCheck(userDoc)
       IN req' = [req EXCEPT ![r] =
            IF err # ""
            THEN Done(@, CatchResponse("cancel", err))
            ELSE LET c == CanceledNames(r, userDoc)
                 IN [@ EXCEPT !.pc = "commit", !.readTime = userDoc.updateTime,
                              !.CanceledMissionName = c.name,
                              !.CanceledMissionId = c.id,
                              !.writes = CancelWrites(c.id, c.name)]]
    /\ UNCHANGED <<users, missions, journeyEvents, now>>

CancelCommit(r) ==
    /\ req[r].op = "cancel"
    /\ req[r].pc = "commit"
    /\ IF CanCommit(r)
       THEN /\ ApplyWrites(r)
            /\ req' = [req EXCEPT ![r] =
                    Done(@, Ok(Undefined, req[r].CanceledMissionName))]
       ELSE /\ Retry(r)
            /\ UNCHANGED <<users, journeyEvents>>
    /\ UNCHANGED <<missions, now>>

-----------------------------------------------------------------------------
(* POST /api/missions/complete *)

CompleteCheckMergedGuard(userDoc, missionId) ==
    IF ~userDoc.exists THEN "UserNotFound"
    ELSE IF \/ userDoc.activeMission = Undefined
            \/ userDoc.activeMission.missionId # missionId
         THEN "MissionMismatch"
    ELSE ""

CompleteCheckNoMismatch(userDoc, missionId) ==
    IF ~userDoc.exists THEN "UserNotFound"
    ELSE IF userDoc.activeMission = Undefined THEN "NoActiveMission"
    ELSE ""

\* the checks of the transaction body: the error thrown, or "" for none
CompleteCheck(userDoc, missionId) ==
    IF ~userDoc.exists THEN "UserNotFound"
    ELSE IF userDoc.activeMission = Undefined THEN "NoActiveMission"
    ELSE IF userDoc.activeMission.missionId # missionId THEN "MissionMismatch"
    ELSE ""

\* the writes the body buffers: the delete and the completed event
CompleteWrites(missionId, missionName) ==
    [activeMission |-> Undefined,
     event |-> [missionId |-> missionId, missionName |-> missionName,
                status |-> "completed"]]

CompleteParamsIdOnly(m, n) == m = ""

\* !missionId || !missionName
CompleteParamsMissing(m, n) == m = "" \/ n = ""

CompleteBegin(r, u, m, n) ==
    /\ Free(r, u)
    /\ req' = [req EXCEPT ![r] =
            IF CompleteParamsMissing(m, n)
            THEN Done(NewReq("complete", u, m, n), BadRequest("MissingParameters"))
            ELSE [NewReq("complete", u, m, n) EXCEPT !.pc = "txn"]]
    /\ UNCHANGED <<users, missions, journeyEvents, now>>

CompleteTxnBody(r) ==
    /\ req[r].op = "complete"
    /\ req[r].pc = "txn"
    /\ LET userDoc == UserDoc(req[r].userId)
           err == CompleteCheck(userDoc, req[r].missionId)
       IN req' = [req EXCEPT ![r] =
            IF err # ""
            THEN Done(@, CatchResponse("complete", err))
            ELSE [@ EXCEPT !.pc = "commit", !.readTime = userDoc.updateTime,
                           !.writes = CompleteWrites(req[r].missionId,
                                                     req[r].missionName)]]
    /\ UNCHANGED <<users, missions, journeyEvents, now>>

CompleteCommit(r) ==
    /\ req[r].op = "complete"
    /\ req[r].pc = "commit"
    /\ IF CanCommit(r)
       THEN /\ ApplyWrites(r)
            /\ req' = [req EXCEPT ![r] =
                    Done(@, Ok(Undefined, req[r].missionName))]
       ELSE /\ Retry(r)
            /\ UNCHANGED <<users, journeyEvents>>
    /\ UNCHANGED <<missions, now>>

-----------------------------------------------------------------------------
(* GET /api/user/journey-log *)

\* the orders in which the query orderBy('eventDate', 'desc') can return the
\* documents of a log: eventDate never increasing; the query names no second
\* key, so documents of equal eventDate come in the order of their document
\* ids, which .doc() draws at random
orderByEventDateDesc(log) ==
    LET n == Len(log)
        Orders == {p \in [1..n -> 1..n] : \A i, j \in 1..n : i # j => p[i] # p[j]}
    IN {[i \in 1..n |-> log[p[i]]] : p \in
            {o \in Orders : \A i, j \in 1..n :
                i < j => log[o[i]].eventDate.t >= log[o[j]].eventDate.t}}

\* the array the handler builds of a query snapshot
JourneyLogBody(docs) ==
    [i \in 1..Len(docs) |-> [docs[i] EXCEPT !.eventDate = toISOString(@)]]

JourneyLogOk(body) ==
    [status |-> 200, error |-> "", activeMission |-> Undefined, missionName |-> "",
     journeyEvents |-> body]

\* the whole handler: one query, answered with the array, or with the store's
\* error when the query fails
JourneyLogGet(r, u) ==
    /\ req[r].pc \in {"idle", "done"}
    /\ \E response \in
            {JourneyLogOk(JourneyLogBody(docs)) :
                docs \in orderByEventDateDesc(journeyEvents[u])}
            \cup {[status |-> 500, error |-> "Unavailable",
                   activeMission |-> Undefined, missionName |-> ""]} :
         req' = [req EXCEPT ![r] = Done(NewReq("journey-log", u, "", ""), response)]
    /\ UNCHANGED <<users, missions, journeyEvents, now>>

-----------------------------------------------------------------------------
(* Failures of the store *)

\* a read or the commit of a transaction fails: runTransaction rejects with
\* the store's error, nothing is written, and the catch block answers
TxnFail(r) ==
    /\ req[r].pc \in {"txn", "commit"}
    /\ req' = [req EXCEPT ![r] = Done(@, CatchResponse(req[r].op, "Unavailable"))]
    /\ UNCHANGED <<users, missions, journeyEvents, now>>

\* the read of the user document after the start transaction fails
StartRereadFail(r) ==
    /\ req[r].op = "start"
    /\ req[r].pc = "reread"
    /\ req' = [req EXCEPT ![r] = Done(@, CatchResponse("start", "Unavailable"))]
    /\ UNCHANGED <<users, missions, journeyEvents, now>>

-----------------------------------------------------------------------------
(* The store's clock *)

Tick ==
    /\ now < MaxTime
    /\ now' = now + 1
    /\ UNCHANGED <<users, missions, journeyEvents, req>>

-----------------------------------------------------------------------------
(* Specifications *)

\* a step of the handler running in slot r
HandlerStep(r) ==
    \/ StartTxnBody(r) \/ StartCommit(r) \/ StartReread(r)
    \/ CancelTxnBody(r) \/ CancelCommit(r)
    \/ CompleteTxnBody(r) \/ CompleteCommit(r)

\* Requests of one user, racing: the missions the user can and cannot start,
\* and completions naming either startable mission under either name
RaceUsers == {"u1"}

RaceStartIds == {"m1", "m2", "m3"}

RaceCompleteIds == {"m1", "m2"}

RaceCompleteNames == {"Alpha", "Beta"}

Next ==
    \/ \E r \in Slots, u \in RaceUsers, m \in RaceStartIds : StartBegin(r, u, m)
    \/ \E r \in Slots : StartTxnBody(r)
    \/ \E r \in Slots : StartCommit(r)
    \/ \E r \in Slots : StartReread(r)
    \/ \E r \in Slots, u \in RaceUsers : CancelBegin(r, u)
    \/ \E r \in Slots : CancelTxnBody(r)
    \/ \E r \in Slots : CancelCommit(r)
    \/ \E r \in Slots, u \in RaceUsers, m \in RaceCompleteIds, n \in RaceCompleteNames :
            CompleteBegin(r, u, m, n)
    \/ \E r \in Slots : CompleteTxnBody(r)
    \/ \E r \in Slots : CompleteCommit(r)
    \/ Tick

Spec == Init /\ [][Next]_vars

\* Start requests only, each slot used once, for one Idle user and the
\* missions that user is eligible for
InitStarts ==
    /\ users = [u1 |-> Profile(Num(2)), u2 |-> Profile(Num(3))]
    /\ missions = Catalog
    /\ journeyEvents = [u \in UserIds |-> <<>>]
    /\ now = 0
    /\ req = [r \in 1..NStarts |-> IdleReq]

EligibleIds == {"m1", "m2"}

StartBeginOnce(r, m) == req[r].pc = "idle" /\ StartBegin(r, "u1", m)

NextStarts ==
    \/ \E r \in Slots, m \in EligibleIds : StartBeginOnce(r, m)
    \/ \E r \in Slots : StartTxnBody(r)
    \/ \E r \in Slots : StartCommit(r)
    \/ \E r \in Slots : StartReread(r)
    \/ Tick

SpecStarts == InitStarts /\ [][NextStarts]_vars

\* Starts of one mission and cancels contending for one user, each await of
\* a running handler eventually resolved
NextContend ==
    \/ \E r \in Slots : StartBegin(r, "u1", "m1")
    \/ \E r \in Slots : StartTxnBody(r)
    \/ \E r \in Slots : StartCommit(r)
    \/ \E r \in Slots : StartReread(r)
    \/ \E r \in Slots : CancelBegin(r, "u1")
    \/ \E r \in Slots : CancelTxnBody(r)
    \/ \E r \in Slots : CancelCommit(r)
    \/ Tick

FairSpec ==
    Init /\ [][NextContend]_vars /\ \A r \in RaceSlots : WF_vars(HandlerStep(r))

\* Every request body the handlers accept or reject, for a user with a
\* profile and one without, in slot 1; a rival handler of the same user in
\* slot 2; and a store that can fail at each of a handler's awaits
WideUsers == {"u1", "ghost"}

RivalStartIds == {"m1"}

WideCompleteIds == {"m1", "m2", ""}

WideCompleteNames == {"Alpha", ""}

NextWide ==
    \/ \E u \in WideUsers, m \in ReqMissionIds : StartBegin(1, u, m)
    \/ \E m \in RivalStartIds : StartBegin(2, "u1", m)
    \/ \E r \in Slots : StartTxnBody(r)
    \/ \E r \in Slots : StartCommit(r)
    \/ \E r \in Slots : StartReread(r)
    \/ \E u \in WideUsers : CancelBegin(1, u)
    \/ CancelBegin(2, "u1")
    \/ \E r \in Slots : CancelTxnBody(r)
    \/ \E r \in Slots : CancelCommit(r)
    \/ \E u \in WideUsers, m \in WideCompleteIds, n \in WideCompleteNames :
            CompleteBegin(1, u, m, n)
    \/ \E r \in Slots : CompleteTxnBody(r)
    \/ \E r \in Slots : CompleteCommit(r)
    \/ \E r \in Slots : TxnFail(r)
    \/ \E r \in Slots : StartRereadFail(r)
    \/ Tick

SpecWide == Init /\ [][NextWide]_vars

\* One start of mission m1 by an Idle user, for every shipStatus of the user
\* and every crew requirement of the mission, absent ones included
CrewValues == {Undefined} \cup {Num(n) : n \in 0..MaxCrew}

ShipValues == {Undefined} \cup {[crewCurrent |-> c] : c \in CrewValues}

InitElig ==
    /\ \E s \in ShipValues :
        users = [u1 |-> [Profile(Undefined) EXCEPT !.shipStatus = s],
                 u2 |-> Profile(Num(3))]
    /\ \E c \in CrewValues : missions = [Catalog EXCEPT !.m1.crew = c]
    /\ journeyEvents = [u \in UserIds |-> <<>>]
    /\ now = 0
    /\ req = [r \in {1} |-> IdleReq]

NextElig ==
    \/ StartBeginOnce(1, "m1")
    \/ StartTxnBody(1)
    \/ StartCommit(1)
    \/ StartReread(1)
    \/ Tick

SpecElig == InitElig /\ [][NextElig]_vars

\* Two users at once: the handlers of slot 1 serve u1, those of slot 2 serve
\* u2, each user starting, canceling and completing one mission
SlotUser == [s \in RaceSlots |-> IF s = 1 THEN "u1" ELSE "u2"]

SlotMission == [s \in RaceSlots |-> IF s = 1 THEN "m1" ELSE "m3"]

NextUsers ==
    \/ \E r \in Slots : StartBegin(r, SlotUser[r], SlotMission[r])
    \/ \E r \in Slots : StartTxnBody(r)
    \/ \E r \in Slots : StartCommit(r)
    \/ \E r \in Slots : StartReread(r)
    \/ \E r \in Slots : CancelBegin(r, SlotUser[r])
    \/ \E r \in Slots : CancelTxnBody(r)
    \/ \E r \in Slots : CancelCommit(r)
    \/ \E r \in Slots : CompleteBegin(r, SlotUser[r], SlotMission[r], "Alpha")
    \/ \E r \in Slots : CompleteTxnBody(r)
    \/ \E r \in Slots : CompleteCommit(r)
    \/ Tick

SpecUsers == Init /\ [][NextUsers]_vars

\* Cancel and complete requests only, each slot used once, for one user whose
\* start of m1 has committed at time 0
InitEnds ==
    /\ users = [u1 |-> UpdatedUser(Profile(Num(2)), StartWrites("m1", Catalog["m1"]), 0),
                u2 |-> Profile(Num(3))]
    /\ missions = Catalog
    /\ journeyEvents =
            [u \in UserIds |->
                IF u = "u1"
                THEN <<ResolveEvent(StartWrites("m1", Catalog["m1"]).event, 0)>>
                ELSE <<>>]
    /\ now = 0
    /\ req = [r \in 1..NEnds |-> IdleReq]

CancelBeginOnce(r) == req[r].pc = "idle" /\ CancelBegin(r, "u1")

CompleteBeginOnce(r) == req[r].pc = "idle" /\ CompleteBegin(r, "u1", "m1", "Alpha")

NextEnds ==
    \/ \E r \in Slots : CancelBeginOnce(r)
    \/ \E r \in Slots : CancelTxnBody(r)
    \/ \E r \in Slots : CancelCommit(r)
    \/ \E r \in Slots : CompleteBeginOnce(r)
    \/ \E r \in Slots : CompleteTxnBody(r)
    \/ \E r \in Slots : CompleteCommit(r)
    \/ Tick

SpecEnds == InitEnds /\ [][NextEnds]_vars

\* One user's transitions in slot 1, reads of that user's journey log in
\* slot 2
NextLog ==
    \/ StartBegin(1, "u1", "m1")
    \/ CancelBegin(1, "u1")
    \/ CompleteBegin(1, "u1", "m1", "Alpha")
    \/ HandlerStep(1)
    \/ JourneyLogGet(2, "u1")
    \/ Tick

SpecLog == Init /\ [][NextLog]_vars

-----------------------------------------------------------------------------
(* Properties *)

Statuses(u) == [i \in 1..Len(journeyEvents[u]) |-> journeyEvents[u][i].status]

StartedCount(u) ==
    Cardinality({i \in 1..Len(journeyEvents[u]) : journeyEvents[u][i].status = "started"})

Succeeded(r) == req[r].pc = "done" /\ req[r].response.status = 200

FailedWith(r, kind) ==
    /\ req[r].pc = "done"
    /\ req[r].response.status = 400
    /\ req[r].response.error = kind

AllDone == \A r \in Slots : req[r].pc = "done"

\* slot r takes the step of its transaction body in this transition
BodyStep(r, op) == req[r].op = op /\ req[r].pc = "txn" /\ req'[r] # req[r]

\* slot r commits its attempt in this transition
CommitStep(r, op) ==
    /\ req[r].op = op
    /\ req[r].pc = "commit"
    /\ CanCommit(r)
    /\ req'[r] # req[r]

StoreUnchanged == users' = users /\ journeyEvents' = journeyEvents /\ missions' = missions

\* C1: of N >= 2 start requests racing for one Idle, eligible user, at most one
\* ever succeeds and at most one started event is ever written; a request that
\* has ended has succeeded or failed with AlreadyActive; and once all N have
\* ended exactly one has succeeded, the other N-1 have failed with AlreadyActive
\* and the user's journey log holds exactly one event, a started one.
C1_OneStartWins ==
    /\ Cardinality({r \in Slots : Succeeded(r)}) <= 1
    /\ StartedCount("u1") <= 1
    /\ \A r \in Slots : req[r].pc = "done" => Succeeded(r) \/ FailedWith(r, "AlreadyActive")
    /\ AllDone =>
        /\ Cardinality({r \in Slots : Succeeded(r)}) = 1
        /\ Cardinality({r \in Slots : FailedWith(r, "AlreadyActive")}) = Cardinality(Slots) - 1
        /\ Statuses("u1") = <<"started">>

\* C1 witness: every request has ended and one of them lost its first attempt
\* to a conflict and ran its transaction again.
C1_Witness ==
    /\ Cardinality(Slots) >= 2
    /\ AllDone
    /\ \E r \in Slots : req[r].attempts > 0 /\ FailedWith(r, "AlreadyActive")
    /\ \E r \in Slots : Succeeded(r)

\* C2: in every reachable state, for every user, the profile holds an
\* activeMission if and only if the user's most recently committed journey
\* event has status started.
C2_ProfileMatchesLog ==
    \A u \in UserIds :
        (users[u].activeMission # Undefined) <=>
            /\ Len(journeyEvents[u]) > 0
            /\ journeyEvents[u][Len(journeyEvents[u])].status = "started"

\* C2 witness: a state between the steps of two running requests, one of them
\* on a retried attempt, the user Active after earlier transitions.
C2_Witness ==
    /\ users["u1"].activeMission # Undefined
    /\ Len(journeyEvents["u1"]) >= 3
    /\ \E r \in Slots : req[r].pc = "commit" /\ req[r].attempts > 0
    /\ \E r \in Slots : req[r].pc = "reread"

\* C3: the statuses of a user's journey events in commit order alternate:
\* every odd event is started, every even event is canceled or completed.
C3_Alternation ==
    \A u \in UserIds : \A i \in 1..Len(journeyEvents[u]) :
        IF i % 2 = 1
        THEN journeyEvents[u][i].status = "started"
        ELSE journeyEvents[u][i].status \in {"canceled", "completed"}

\* C3 witness: a log of two finished missions, one canceled and one completed.
C3_Witness ==
    /\ Len(journeyEvents["u1"]) >= 4
    /\ {journeyEvents["u1"][2].status, journeyEvents["u1"][4].status}
            = {"canceled", "completed"}

\* C4: a start request for an existing mission whose transaction reads a user
\* with an activeMission ends with AlreadyActive (client fault), and that step
\* leaves the profiles, the journey logs and the catalog as they were.
C4_StartWhenActive ==
    [][\A r \in Slots :
        (/\ BodyStep(r, "start")
         /\ UserDoc(req[r].userId).exists
         /\ MissionDoc(req[r].missionId).exists
         /\ UserDoc(req[r].userId).activeMission # Undefined)
        => (/\ req'[r].pc = "done"
            /\ req'[r].response.status = 400
            /\ req'[r].response.error = "AlreadyActive"
            /\ StoreUnchanged)]_vars

\* C4 witness: with a mission active, one start naming the same mission and one
\* naming a different one have both failed with AlreadyActive.
C4_Witness ==
    /\ users["u1"].activeMission # Undefined
    /\ \E r \in Slots :
        /\ FailedWith(r, "AlreadyActive")
        /\ req[r].missionId = users["u1"].activeMission.missionId
    /\ \E r \in Slots :
        /\ FailedWith(r, "AlreadyActive")
        /\ req[r].missionId # users["u1"].activeMission.missionId

\* C5: a cancel, or a complete carrying missionId and missionName, whose
\* transaction reads an existing user with no activeMission ends with
\* NoActiveMission (client fault), and that step leaves the profiles and the
\* journey logs as they were.
C5_NoActiveMission ==
    [][\A r \in Slots :
        (/\ BodyStep(r, "cancel") \/ BodyStep(r, "complete")
         /\ UserDoc(req[r].userId).exists
         /\ UserDoc(req[r].userId).activeMission = Undefined)
        => (/\ req'[r].pc = "done"
            /\ req'[r].response.status = 400
            /\ req'[r].response.error = "NoActiveMission"
            /\ StoreUnchanged)]_vars

\* C5 witness: a cancel and a complete have both failed with NoActiveMission
\* for a user who is Idle with an empty journey log.
C5_Witness ==
    /\ users["u1"].activeMission = Undefined
    /\ journeyEvents["u1"] = <<>>
    /\ \E r \in Slots : req[r].op = "cancel" /\ FailedWith(r, "NoActiveMission")
    /\ \E r \in Slots : req[r].op = "complete" /\ FailedWith(r, "NoActiveMission")

\* C6: a complete carrying missionId X and a missionName whose transaction reads
\* an activeMission with missionId Y # X ends with MissionMismatch (client
\* fault), and that step leaves the activeMission and the journey logs as they
\* were.
C6_MissionMismatch ==
    [][\A r \in Slots :
        (/\ BodyStep(r, "complete")
         /\ UserDoc(req[r].userId).exists
         /\ UserDoc(req[r].userId).activeMission # Undefined
         /\ UserDoc(req[r].userId).activeMission.missionId # req[r].missionId)
        => (/\ req'[r].pc = "done"
            /\ req'[r].response.status = 400
            /\ req'[r].response.error = "MissionMismatch"
            /\ StoreUnchanged)]_vars

\* C6 witness: a complete has failed with MissionMismatch and the mission it
\* did not name is still active, its started event the last of the log.
C6_Witness ==
    \E r \in Slots :
        /\ req[r].op = "complete"
        /\ FailedWith(r, "MissionMismatch")
        /\ users["u1"].activeMission # Undefined
        /\ users["u1"].activeMission.missionId # req[r].missionId
        /\ Statuses("u1") = <<"started">>

\* C7: a start whose transaction reads an Idle user with crewCurrent below the
\* mission's crew requirement ends with InsufficientCrew (client fault), and
\* that step creates no activeMission and no journey event.
C7_InsufficientCrew ==
    [][\A r \in Slots :
        (/\ BodyStep(r, "start")
         /\ UserDoc(req[r].userId).exists
         /\ MissionDoc(req[r].missionId).exists
         /\ UserDoc(req[r].userId).activeMission = Undefined
         /\ UserDoc(req[r].userId).shipStatus # Undefined
         /\ UserDoc(req[r].userId).shipStatus.crewCurrent # Undefined
         /\ MissionDoc(req[r].missionId).crew # Undefined
         /\ UserDoc(req[r].userId).shipStatus.crewCurrent.v
                < MissionDoc(req[r].missionId).crew.v)
        => (/\ req'[r].pc = "done"
            /\ req'[r].response.status = 400
            /\ req'[r].response.error = "InsufficientCrew"
            /\ StoreUnchanged)]_vars

\* C7 witness: a start of a mission needing 3 crew by an Idle user with 2 has
\* failed with InsufficientCrew; the user is Idle and the log empty.
C7_Witness ==
    \E r \in Slots :
        /\ req[r].op = "start"
        /\ req[r].missionId = "m3"
        /\ FailedWith(r, "InsufficientCrew")
        /\ users["u1"].activeMission = Undefined
        /\ journeyEvents["u1"] = <<>>

\* C8: a start request that reports success for missionId M returns an
\* activeMission that is present and whose missionId is M.
C8_StartReturnsCommitted ==
    \A r \in Slots :
        (req[r].op = "start" /\ Succeeded(r)) =>
            /\ req[r].response.activeMission # Undefined
            /\ req[r].response.activeMission.missionId = req[r].missionId

\* C9: the commit of a start of M by an Idle user sets the profile's
\* activeMission to M with the catalog's name and duration of M and the commit
\* time, appends one started event for M with that name and time, and leaves
\* shipStatus, the earlier events, the other users and the catalog unchanged.
C9_StartWriteSet ==
    [][\A r \in Slots :
        CommitStep(r, "start") =>
            LET u == req[r].userId
                M == req[r].missionId
            IN /\ users[u].activeMission = Undefined
               /\ users' = [users EXCEPT
                    ![u].activeMission =
                        [missionId |-> M, missionName |-> Catalog[M].name,
                         startDate |-> Timestamp(now),
                         durationSeconds |-> Catalog[M].durationSeconds],
                    ![u].updateTime = @ + 1]
               /\ journeyEvents' = [journeyEvents EXCEPT
                    ![u] = Append(@, [missionId |-> M, missionName |-> Catalog[M].name,
                                      status |-> "started",
                                      eventDate |-> Timestamp(now)])]
               /\ missions' = missions]_vars

\* C9 witness: a start has committed after earlier transitions of the same
\* user and waits for its read of the profile.
C9_Witness ==
    \E r \in Slots :
        /\ req[r].op = "start"
        /\ req[r].pc = "reread"
        /\ Len(journeyEvents["u1"]) = 3
        /\ users["u1"].activeMission # Undefined
        /\ users["u1"].activeMission.missionId = req[r].missionId

\* C10: the commit of a cancel deletes the activeMission and appends exactly one
\* canceled event carrying the missionId and missionName of the activeMission
\* stored when the committing attempt read it, and the response names that
\* mission, whatever an earlier, aborted attempt had read.
C10_CancelWriteSet ==
    [][\A r \in Slots :
        CommitStep(r, "cancel") =>
            LET u == req[r].userId
                am == users[u].activeMission
            IN /\ am # Undefined
               /\ users' = [users EXCEPT ![u].activeMission = Undefined,
                                         ![u].updateTime = @ + 1]
               /\ journeyEvents' = [journeyEvents EXCEPT
                    ![u] = Append(@, [missionId |-> am.missionId,
                                      missionName |-> am.missionName,
                                      status |-> "canceled",
                                      eventDate |-> Timestamp(now)])]
               /\ req'[r].pc = "done"
               /\ req'[r].response.status = 200
               /\ req'[r].response.missionName = am.missionName]_vars

\* C10 witness: a cancel whose first attempt read mission m1 and was aborted has
\* succeeded on a later attempt against m2, and names m2's mission.
C10_Witness ==
    \E r \in Slots :
        /\ req[r].op = "cancel"
        /\ Succeeded(r)
        /\ req[r].attempts > 0
        /\ req[r].response.missionName = "Beta"
        /\ Len(journeyEvents["u1"]) = 4
        /\ journeyEvents["u1"][1].missionId = "m1"
        /\ journeyEvents["u1"][4] \in
              {[missionId |-> "m2", missionName |-> "Beta", status |-> "canceled",
                eventDate |-> Timestamp(t)] : t \in 0..MaxTime}

\* C11: the journey log is append-only: in every step each user's log keeps
\* every event it held, unchanged and at the same place, so its length never
\* decreases.
C11_AppendOnly ==
    [][\A u \in UserIds :
        /\ Len(journeyEvents'[u]) >= Len(journeyEvents[u])
        /\ \A i \in 1..Len(journeyEvents[u]) :
                journeyEvents'[u][i] = journeyEvents[u][i]]_vars

\* C11 witness: the first event, written at time 0, is still the first after
\* three later transitions, the last of them at a later time.
C11_Witness ==
    /\ Len(journeyEvents["u1"]) = 4
    /\ journeyEvents["u1"][1].status = "started"
    /\ journeyEvents["u1"][1].eventDate = Timestamp(0)
    /\ journeyEvents["u1"][4].eventDate = Timestamp(1)

BusinessKinds ==
    {"UserNotFound", "MissionNotFound", "AlreadyActive", "NoActiveMission",
     "MissionMismatch", "MissingParameters", "InsufficientCrew",
     "IncompleteShipData", "IncompleteMissionData"}

StorageKinds == {"Aborted", "Unavailable"}

C13_Eligibility ==
    req[1].pc = "done" =>
        LET ship == users["u1"].shipStatus
            crew == missions["m1"].crew
        IN IF ship = Undefined \/ ship.crewCurrent = Undefined
           THEN FailedWith(1, "IncompleteShipData")
           ELSE IF crew = Undefined
           THEN FailedWith(1, "IncompleteMissionData")
           ELSE IF ship.crewCurrent.v < crew.v
           THEN FailedWith(1, "InsufficientCrew")
           ELSE Succeeded(1) /\ Statuses("u1") = <<"started">>

\* C13 witness: a start with crewCurrent equal to the crew requirement, both
\* positive, has succeeded.
C13_Witness ==
    /\ Succeeded(1)
    /\ users["u1"].shipStatus.crewCurrent = missions["m1"].crew
    /\ missions["m1"].crew = Num(MaxCrew)
    /\ users["u1"].activeMission # Undefined

\* C14: a step of a request for user A leaves every other user's profile and
\* journey log and the catalog unchanged, and no request is ever aborted or
\* retried because of the requests running for another user.
C14_UsersIndependent ==
    /\ [](\A r \in Slots : req[r].attempts = 0)
    /\ [][\A r \in Slots :
            req'[r] # req[r] =>
                /\ missions' = missions
                /\ \A b \in UserIds \ {req'[r].userId} :
                        users'[b] = users[b] /\ journeyEvents'[b] = journeyEvents[b]]_vars

\* C14 witness: u1 holds an active mission and a cancel of u1 is between its
\* read and its commit, while u2 has finished one mission and a start of u2
\* is between its read and its commit.
C14_Witness ==
    /\ users["u1"].activeMission # Undefined
    /\ users["u2"].activeMission = Undefined
    /\ Len(journeyEvents["u1"]) = 1
    /\ Len(journeyEvents["u2"]) = 2
    /\ req[1].op = "cancel"
    /\ req[1].pc = "commit"
    /\ req[2].op = "start"
    /\ req[2].pc = "commit"

\* slot r runs a handler that has not answered yet
InFlight(r) == req[r].pc \in {"txn", "commit", "reread"}

\* C15: a handler never runs its transaction more than MaxAttempts times; a
\* request whose attempts were all aborted is answered with a server fault,
\* the step that gives up changes no stored state; and every request that has
\* begun is eventually answered.
C15_BoundedRetries ==
    /\ [](\A r \in Slots :
            /\ InFlight(r) => req[r].attempts < MaxAttempts
            /\ req[r].attempts <= MaxAttempts
            /\ (req[r].pc = "done" /\ req[r].attempts = MaxAttempts) =>
                    req[r].response.error = "Aborted" /\ req[r].response.status = 500)
    /\ [][\A r \in Slots :
            (req[r].pc = "commit" /\ ~CanCommit(r) /\ req'[r] # req[r]) =>
                /\ StoreUnchanged
                /\ req'[r].attempts = req[r].attempts + 1]_vars
    /\ \A r \in RaceSlots : InFlight(r) ~> req[r].pc = "done"

\* C15 witness: a request has been answered with the server fault after its
\* last attempt was aborted, and the profile and log are those the other
\* handler's commits left.
C15_Witness ==
    \E r \in Slots :
        /\ req[r].pc = "done"
        /\ req[r].attempts = MaxAttempts
        /\ req[r].response.status = 500
        /\ Len(journeyEvents["u1"]) = 3

\* a journey-log read answered in this step by slot r
ReadStep(r) ==
    /\ req'[r] # req[r]
    /\ req'[r].op = "journey-log"
    /\ req'[r].response.status = 200

\* C16: a journey-log read returns the events in descending eventDate order,
\* and the first event returned is the event of the most recently committed
\* transition.
C16_LatestFirst ==
    [][\A r \in Slots :
        (ReadStep(r) /\ journeyEvents[req'[r].userId] # <<>>) =>
            LET log == journeyEvents[req'[r].userId]
                body == req'[r].response.journeyEvents
            IN /\ Len(body) = Len(log)
               /\ \A i, j \in 1..Len(body) : i < j => body[i].eventDate.t >= body[j].eventDate.t
               /\ body[1] = JourneyLogBody(log)[Len(log)]]_vars

\* slot r takes a new request of op in this transition
BeginStep(r, op) ==
    /\ req[r].pc \in {"idle", "done"}
    /\ req'[r] # req[r]
    /\ req'[r].op = op

\* C17: a complete request without missionId or without missionName is
\* answered 400 MissingParameters in the step that takes it, whatever the
\* user's state and whether or not the user exists, with no transaction run
\* and users, journey logs and catalog unchanged; a complete request with both
\* goes on to its transaction.
C17_CompleteMissingParameters ==
    [][\A r \in Slots :
        BeginStep(r, "complete") =>
            IF req'[r].missionId = "" \/ req'[r].missionName = ""
            THEN /\ req'[r].pc = "done"
                 /\ req'[r].attempts = 0
                 /\ req'[r].response.status = 400
                 /\ req'[r].response.error = "MissingParameters"
                 /\ StoreUnchanged
            ELSE /\ req'[r].pc = "txn"
                 /\ StoreUnchanged]_vars

\* C17 witness: the user is Active with m1, and a complete request for m1
\* without a missionName has been answered MissingParameters.
C17_Witness ==
    /\ users["u1"].activeMission # Undefined
    /\ users["u1"].activeMission.missionId = "m1"
    /\ req[1].op = "complete"
    /\ req[1].userId = "u1"
    /\ req[1].missionId = "m1"
    /\ req[1].missionName = ""
    /\ FailedWith(1, "MissingParameters")
    /\ req[1].response.status = 400

\* the status of the event a successful request of op appends
TerminalStatus(op) == IF op = "cancel" THEN "canceled" ELSE "completed"

\* C18: of the cancel and complete requests racing for one user Active with
\* m1, at most one ever succeeds and at most one terminal event ever follows
\* the started event; a request that has ended has succeeded or failed with
\* NoActiveMission; and once all have ended exactly one has succeeded, the
\* others have failed with NoActiveMission, the user is Idle and the log is
\* the started event followed by the winner's terminal event.
C18_OneEndWins ==
    /\ Cardinality({r \in Slots : Succeeded(r)}) <= 1
    /\ Len(journeyEvents["u1"]) <= 2
    /\ \A r \in Slots : req[r].pc = "done" => Succeeded(r) \/ FailedWith(r, "NoActiveMission")
    /\ (users["u1"].activeMission = Undefined) <=> (\E r \in Slots : Succeeded(r))
    /\ \A r \in Slots : Succeeded(r) =>
            /\ Statuses("u1") = <<"started", TerminalStatus(req[r].op)>>
            /\ journeyEvents["u1"][2].missionId = "m1"
    /\ AllDone =>
        /\ Cardinality({r \in Slots : Succeeded(r)}) = 1
        /\ Cardinality({r \in Slots : FailedWith(r, "NoActiveMission")}) = Cardinality(Slots) - 1
        /\ users["u1"].activeMission = Undefined
        /\ Len(journeyEvents["u1"]) = 2

\* C18 witness: a cancel and a complete have both ended, the cancel won, and
\* the complete lost its first attempt to the cancel's commit and failed on its
\* second.
C18_Witness ==
    /\ Cardinality(Slots) >= 2
    /\ AllDone
    /\ \E r \in Slots : req[r].op = "cancel" /\ Succeeded(r)
    /\ \E r \in Slots :
            /\ req[r].op = "complete"
            /\ req[r].attempts > 0
            /\ FailedWith(r, "NoActiveMission")

\* C19: every canceled or completed event in a user's log comes directly after
\* a started event and carries that event's missionId and missionName.
C19_TerminalMatchesStarted ==
    \A u \in UserIds :
        \A i \in 1..Len(journeyEvents[u]) :
            journeyEvents[u][i].status \in {"canceled", "completed"} =>
                /\ i > 1
                /\ journeyEvents[u][i - 1].status = "started"
                /\ journeyEvents[u][i].missionId = journeyEvents[u][i - 1].missionId
                /\ journeyEvents[u][i].missionName = journeyEvents[u][i - 1].missionName

\* slot r answers its request with a failure in this transition
FailStep(r) ==
    /\ req'[r] # req[r]
    /\ req'[r].pc = "done"
    /\ req'[r].op \in {"start", "cancel", "complete"}
    /\ req'[r].response.status # 200

\* C20: a start, cancel or complete request that is answered with a failure
\* has committed nothing: the step that answers it changes no stored state,
\* and the handler had not committed its transaction before it.
C20_FailureCommitsNothing ==
    [][\A r \in Slots :
        FailStep(r) =>
            /\ StoreUnchanged
            /\ req[r].pc # "reread"]_vars

====
